---------------------------- MODULE Spec2Model ----------------------------
(***************************************************************************)
(* Request lifecycle tracker of youtube-lite (redux "network" duck) and    *)
(* the YouTube search-suggestion client.                                   *)
(*                                                                         *)
(* JavaScript values are modelled as strings; a JavaScript object is a     *)
(* function from its own property names to their values.                   *)
(***************************************************************************)
EXTENDS Naturals, Sequences, FiniteSets, TLC

VARIABLES nanoidCalls, log, store, now, dispatched, sugg

vars == <<nanoidCalls, log, store, now, dispatched, sugg>>

----------------------------------------------------------------------------
(* Bounds of the model *)

\* longest request name, in tokens of NameTokens
MaxNameLen == 2
\* longest sequence of action-creator calls kept in log
MaxCalls == 2
\* longest sequence of records folded into the store
MaxDispatch == 4
\* longest list of suggestions in a response
MaxSuggestions == 2

----------------------------------------------------------------------------
(* JavaScript objects *)

\* the value undefined
undefined == "<undefined>"

\* marks a property left out of an object literal (model only)
ABSENT == "<absent>"

\* o.f : the property's value, undefined when o has no own property f
Get(o, f) == IF f \in DOMAIN o THEN o[f] ELSE undefined

\* the object literal listing the properties of r that are not left out
Obj(r) == [f \in {g \in DOMAIN r : r[g] # ABSENT} |-> r[f]]

----------------------------------------------------------------------------
(* enum RequestActions, REDUX_ASYNC_PREFIX, networkActionTypeCreator *)

CREATE == "CREATE"
START == "START"
SUCCEED == "SUCCEED"
FAIL == "FAIL"
CANCEL == "CANCEL"
REMOVE == "REMOVE"

RequestActions == {CREATE, START, SUCCEED, FAIL, CANCEL, REMOVE}

REDUX_ASYNC_PREFIX == "@RA"

\* a type creator that forgets the action segment
networkActionTypeCreator_NoAction(requestAction, name) ==
    REDUX_ASYNC_PREFIX \o "/" \o name

\* a type creator with the last two segments exchanged
networkActionTypeCreator_NameFirst(requestAction, name) ==
    REDUX_ASYNC_PREFIX \o "/" \o name \o "/" \o requestAction

\* `${REDUX_ASYNC_PREFIX}/${requestAction}/${name}`
networkActionTypeCreator(requestAction, name) ==
    REDUX_ASYNC_PREFIX \o "/" \o requestAction \o "/" \o name

----------------------------------------------------------------------------
(* nanoid: the k-th identifier the generator hands out; every call hands   *)
(* out an identifier it has not handed out before.                         *)

nanoid(k) == "nanoid_" \o ToString(k)

----------------------------------------------------------------------------
(* Action creators.  calls is the number of identifiers nanoid has handed  *)
(* out before the call; createRequest and startRequest return the record   *)
(* (ret) and the number handed out after the call (calls).                 *)

\* the default initialiser `id = nanoid()` runs iff the property is
\* missing or undefined
DefaultsId(params) == Get(params, "id") = undefined

\* `id || nanoid()` instead of a default initialiser: "" is replaced too
createRequest_FalsyId(params, calls) ==
    LET fresh == Get(params, "id") \in {undefined, ""}
    IN  [calls |-> IF fresh THEN calls + 1 ELSE calls,
         ret   |-> [id      |-> IF fresh THEN nanoid(calls + 1) ELSE params.id,
                    name    |-> Get(params, "name"),
                    payload |-> Get(params, "payload"),
                    type    |-> networkActionTypeCreator(CREATE, Get(params, "name"))]]

\* the default id computed once, when the module is loaded
createRequest_SharedId(params, calls) ==
    [calls |-> calls,
     ret   |-> [id      |-> IF DefaultsId(params) THEN nanoid(0) ELSE params.id,
                name    |-> Get(params, "name"),
                payload |-> Get(params, "payload"),
                type    |-> networkActionTypeCreator(CREATE, Get(params, "name"))]]

createRequest(params, calls) ==
    LET fresh == DefaultsId(params)
    IN  [calls |-> IF fresh THEN calls + 1 ELSE calls,
         ret   |-> [id      |-> IF fresh THEN nanoid(calls + 1) ELSE params.id,
                    name    |-> Get(params, "name"),
                    payload |-> Get(params, "payload"),
                    type    |-> networkActionTypeCreator(CREATE, Get(params, "name"))]]

startRequest(params, calls) ==
    LET fresh == DefaultsId(params)
    IN  [calls |-> IF fresh THEN calls + 1 ELSE calls,
         ret   |-> [id      |-> IF fresh THEN nanoid(calls + 1) ELSE params.id,
                    name    |-> Get(params, "name"),
                    payload |-> Get(params, "payload"),
                    type    |-> networkActionTypeCreator(START, Get(params, "name"))]]

\* createRequest of redux/ducks/network/networkReducer.ts (inline template)
createRequest_ducks(params, calls) ==
    LET fresh == DefaultsId(params)
    IN  [calls |-> IF fresh THEN calls + 1 ELSE calls,
         ret   |-> [id      |-> IF fresh THEN nanoid(calls + 1) ELSE params.id,
                    name    |-> Get(params, "name"),
                    payload |-> Get(params, "payload"),
                    type    |-> REDUX_ASYNC_PREFIX \o "/" \o CREATE \o "/"
                                   \o Get(params, "name")]]

\* { ...params, type: t }
Spread(params, t) ==
    [f \in DOMAIN params \cup {"type"} |-> IF f = "type" THEN t ELSE params[f]]

succeedRequest(params) ==
    Spread(params, networkActionTypeCreator(SUCCEED, Get(params, "name")))

\* copied from succeedRequest without changing the action
failRequest_CopyPaste(params) ==
    Spread(params, networkActionTypeCreator(SUCCEED, Get(params, "name")))

failRequest(params) ==
    Spread(params, networkActionTypeCreator(FAIL, Get(params, "name")))

\* RequestActions.CREATE picked for RequestActions.CANCEL
cancelRequest_AsCreate(params) ==
    Spread(params, networkActionTypeCreator(CREATE, Get(params, "name")))

\* { type: t, ...params }: the argument's own type wins
cancelRequest_SpreadLast(params) ==
    [f \in DOMAIN params \cup {"type"} |->
        IF f \in DOMAIN params THEN params[f]
        ELSE networkActionTypeCreator(CANCEL, Get(params, "name"))]

cancelRequest(params) ==
    Spread(params, networkActionTypeCreator(CANCEL, Get(params, "name")))


\* removeRequest: a GeneralRequestActionCreator for RequestActions.REMOVE
removeRequest(params) ==
    Spread(params, networkActionTypeCreator(REMOVE, Get(params, "name")))

\* the creators by name: the record returned and the generator's count
\* after the call (only createRequest and startRequest can consult nanoid)
Apply(fn, params, calls) ==
    CASE fn = "createRequest"       -> createRequest(params, calls)
      [] fn = "startRequest"        -> startRequest(params, calls)
      [] fn = "createRequest_ducks" -> createRequest_ducks(params, calls)
      [] fn = "succeedRequest"      -> [calls |-> calls, ret |-> succeedRequest(params)]
      [] fn = "failRequest"         -> [calls |-> calls, ret |-> failRequest(params)]
      [] fn = "cancelRequest"       -> [calls |-> calls, ret |-> cancelRequest(params)]
      [] fn = "removeRequest"       -> [calls |-> calls, ret |-> removeRequest(params)]

\* the creators whose id parameter has the default initialiser nanoid()
IdOptional == {"createRequest", "startRequest", "createRequest_ducks"}

\* one call, recorded in log
Call(fn, params) ==
    LET r == Apply(fn, params, nanoidCalls)
    IN  /\ nanoidCalls' = r.calls
        /\ log' = Append(log, [fn |-> fn, arg |-> params, ret |-> r.ret])
        /\ UNCHANGED <<store, now, dispatched, sugg>>

----------------------------------------------------------------------------
(* Request names: every concatenation of at most MaxNameLen tokens *)

NameTokens == {"/", "FAIL"}

RECURSIVE NamesUpTo(_)
NamesUpTo(k) ==
    IF k = 0 THEN {""}
    ELSE LET shorter == NamesUpTo(k - 1)
         IN  shorter \cup {x \o t : x \in shorter, t \in NameTokens}

Names == NamesUpTo(MaxNameLen)

EmptyObj == [f \in {} |-> undefined]

Init ==
    /\ nanoidCalls = 0
    /\ log = <<>>
    /\ store = EmptyObj
    /\ now = 0
    /\ dispatched = [fn |-> "none"]
    /\ sugg = [pc |-> "idle", url |-> "", tc |-> <<>>, value |-> <<>>]

----------------------------------------------------------------------------
(* SpecType: the creators over every request name *)

TypeArgs == {Obj([id |-> "a", name |-> n]) : n \in Names}

TypeCreateRequest ==
    /\ Len(log) < MaxCalls
    /\ \E p \in TypeArgs : Call("createRequest", p)

TypeCreateRequestDucks ==
    /\ Len(log) < MaxCalls
    /\ \E p \in TypeArgs : Call("createRequest_ducks", p)

TypeStartRequest ==
    /\ Len(log) < MaxCalls
    /\ \E p \in TypeArgs : Call("startRequest", p)

TypeSucceedRequest ==
    /\ Len(log) < MaxCalls
    /\ \E p \in TypeArgs : Call("succeedRequest", p)

TypeFailRequest ==
    /\ Len(log) < MaxCalls
    /\ \E p \in TypeArgs : Call("failRequest", p)

TypeCancelRequest ==
    /\ Len(log) < MaxCalls
    /\ \E p \in TypeArgs : Call("cancelRequest", p)

TypeRemoveRequest ==
    /\ Len(log) < MaxCalls
    /\ \E p \in TypeArgs : Call("removeRequest", p)

NextType ==
    \/ TypeCreateRequest
    \/ TypeCreateRequestDucks
    \/ TypeStartRequest
    \/ TypeSucceedRequest
    \/ TypeFailRequest
    \/ TypeCancelRequest
    \/ TypeRemoveRequest

SpecType == Init /\ [][NextType]_vars

----------------------------------------------------------------------------
(* Properties of the type string *)

\* the action each creator stands for
ActionOf(fn) ==
    CASE fn \in {"createRequest", "createRequest_ducks"} -> CREATE
      [] fn = "startRequest"   -> START
      [] fn = "succeedRequest" -> SUCCEED
      [] fn = "failRequest"    -> FAIL
      [] fn = "cancelRequest"  -> CANCEL
      [] fn = "removeRequest"  -> REMOVE

Calls == 1 .. Len(log)

\* C1: every record a creator returns has the type
\* "@RA/<ACTION>/<request-name>", <ACTION> being the action of the creator
\* that was called and <request-name> the name it was given.
C1_TypeFormat ==
    \A i \in Calls :
        log[i].ret.type =
            "@RA/" \o ActionOf(log[i].fn) \o "/" \o log[i].arg.name

\* a cancelRequest record for a name that is itself an action word, next to
\* a record of another creator
C1_Witness ==
    \E i, j \in Calls :
        /\ log[i].fn = "cancelRequest" /\ log[i].arg.name = "FAIL"
        /\ log[j].fn = "createRequest" /\ log[j].arg.name = "/"

\* C9: two records with the same type come from creators of the same
\* action called with the same name.
C9_TypeInjective ==
    \A i, j \in Calls :
        log[i].ret.type = log[j].ret.type =>
            /\ ActionOf(log[i].fn) = ActionOf(log[j].fn)
            /\ log[i].arg.name = log[j].arg.name

\* the two createRequest functions called with one name that contains "/"
\* and an action word: records of equal type
C9_Witness ==
    /\ Len(log) = 2
    /\ log[1].fn = "createRequest" /\ log[2].fn = "createRequest_ducks"
    /\ log[1].arg.name = "/FAIL" /\ log[2].arg.name = "/FAIL"
    /\ log[1].ret.type = log[2].ret.type

----------------------------------------------------------------------------
(* SpecFrame: succeedRequest, failRequest and cancelRequest on arguments   *)
(* with a payload, an own type property and a further property             *)

FrameArgs ==
    {Obj([id |-> "a", name |-> n, payload |-> p, type |-> t, meta |-> m]) :
        n \in {"n", "FAIL/n"},
        p \in {ABSENT, undefined, "42"},
        t \in {ABSENT, "@RA/SUCCEED/n"},
        m \in {ABSENT, "m"}}

FrameSucceedRequest ==
    /\ Len(log) < MaxCalls
    /\ \E p \in FrameArgs : Call("succeedRequest", p)

FrameFailRequest ==
    /\ Len(log) < MaxCalls
    /\ \E p \in FrameArgs : Call("failRequest", p)

FrameCancelRequest ==
    /\ Len(log) < MaxCalls
    /\ \E p \in FrameArgs : Call("cancelRequest", p)

NextFrame ==
    \/ FrameSucceedRequest
    \/ FrameFailRequest
    \/ FrameCancelRequest

SpecFrame == Init /\ [][NextFrame]_vars

\* C10: succeedRequest, failRequest and cancelRequest return the argument's
\* properties unchanged, with type replaced by (or set to) the creator's own
\* "@RA/<ACTION>/<name>", also when the argument has a type of its own; on
\* the same argument their results differ in type only.
C10_SpreadFrame ==
    /\ \A i \in Calls :
          /\ DOMAIN log[i].ret = DOMAIN log[i].arg \cup {"type"}
          /\ \A f \in DOMAIN log[i].arg \ {"type"} :
                log[i].ret[f] = log[i].arg[f]
          /\ log[i].ret.type =
                "@RA/" \o ActionOf(log[i].fn) \o "/" \o log[i].arg.name
    /\ \A i, j \in Calls :
          log[i].arg = log[j].arg =>
             /\ DOMAIN log[i].ret = DOMAIN log[j].ret
             /\ \A f \in DOMAIN log[i].ret \ {"type"} :
                   log[i].ret[f] = log[j].ret[f]
             /\ (log[i].ret.type = log[j].ret.type) = (log[i].fn = log[j].fn)

\* cancelRequest and failRequest on one argument that has a type, a payload
\* and a further property
C10_Witness ==
    /\ Len(log) = 2
    /\ log[1].fn = "cancelRequest" /\ log[2].fn = "failRequest"
    /\ log[1].arg = log[2].arg
    /\ DOMAIN log[1].arg = {"id", "name", "payload", "type", "meta"}
    /\ log[1].arg.type = "@RA/SUCCEED/n"
    /\ log[1].ret.type = "@RA/CANCEL/FAIL/n"

----------------------------------------------------------------------------
(* SpecSeq: sequences of calls in which the id is omitted, undefined,      *)
(* supplied, or taken from a record returned earlier                       *)

SeqNames == {"n", "m"}

\* the ids of the records returned so far
ReturnedIds == {log[i].ret.id : i \in 1 .. Len(log)}

\* arguments of createRequest and startRequest: id is optional
IdOptionalArgs ==
    {Obj([id |-> i, name |-> n]) :
        i \in {ABSENT, undefined, "", "a"} \cup ReturnedIds, n \in SeqNames}

\* arguments of succeedRequest, failRequest, cancelRequest: id is required
IdRequiredArgs ==
    {Obj([id |-> i, name |-> n]) :
        i \in {"", "a"} \cup ReturnedIds, n \in SeqNames}

SeqCreateRequest ==
    /\ Len(log) < MaxCalls
    /\ \E p \in IdOptionalArgs : Call("createRequest", p)

SeqStartRequest ==
    /\ Len(log) < MaxCalls
    /\ \E p \in IdOptionalArgs : Call("startRequest", p)

SeqSucceedRequest ==
    /\ Len(log) < MaxCalls
    /\ \E p \in IdRequiredArgs : Call("succeedRequest", p)

SeqFailRequest ==
    /\ Len(log) < MaxCalls
    /\ \E p \in IdRequiredArgs : Call("failRequest", p)

SeqCancelRequest ==
    /\ Len(log) < MaxCalls
    /\ \E p \in IdRequiredArgs : Call("cancelRequest", p)

NextSeq ==
    \/ SeqCreateRequest
    \/ SeqStartRequest
    \/ SeqSucceedRequest
    \/ SeqFailRequest
    \/ SeqCancelRequest

SpecSeq == Init /\ [][NextSeq]_vars

\* the calls of createRequest or startRequest that leave the id out
OmitsId(i) == log[i].fn \in IdOptional /\ DefaultsId(log[i].arg)

PendingCreates(j) ==
    {i \in 1 .. (j - 1) :
        /\ log[i].fn = "createRequest"
        /\ log[i].arg.name = log[j].arg.name
        /\ \A k \in (i + 1) .. (j - 1) :
              ~(log[k].fn = "startRequest" /\ log[k].ret.id = log[i].ret.id)}

\* C3: a startRequest that is given an id, for a name that createRequest
\* has initiated, proceeds with an id createRequest returned and not with a
\* new one.
C3_StartKeepsCreatedId ==
    \A j \in Calls :
        (/\ log[j].fn = "startRequest"
         /\ ~DefaultsId(log[j].arg)
         /\ PendingCreates(j) # {}) =>
            \E i \in PendingCreates(j) : log[j].ret.id = log[i].ret.id

\* C7 as claimed: two calls of one creator with the same argument return
\* equal records, and no call touches the id generator.
C7_Pure ==
    /\ \A i, j \in Calls :
          (log[i].fn = log[j].fn /\ log[i].arg = log[j].arg) =>
             log[i].ret = log[j].ret
    /\ nanoidCalls = 0

\* C7 as amended: a call whose argument carries an id (every call of
\* succeedRequest, failRequest, cancelRequest) is a function of its argument
\* and leaves the id generator alone; createRequest and startRequest without
\* an id take one identifier from the generator per call, and two such calls
\* with the same argument return records that differ in id and in nothing
\* else.
C7_PureUnlessIdOmitted ==
    /\ \A i, j \in Calls :
          (log[i].fn = log[j].fn /\ log[i].arg = log[j].arg) =>
             IF OmitsId(i)
             THEN /\ i # j => log[i].ret.id # log[j].ret.id
                  /\ [log[i].ret EXCEPT !.id = ""] = [log[j].ret EXCEPT !.id = ""]
             ELSE log[i].ret = log[j].ret
    /\ nanoidCalls = Cardinality({i \in Calls : OmitsId(i)})

\* the same createRequest call twice, with the empty string as id
C7_Witness ==
    /\ Len(log) = 2
    /\ log[1].fn = "createRequest" /\ log[2].fn = "createRequest"
    /\ log[1].arg = Obj([id |-> "", name |-> "n"])
    /\ log[2].arg = log[1].arg
    /\ log[2].ret = log[1].ret
    /\ nanoidCalls = 0

----------------------------------------------------------------------------
(* The store: enum APIStatus, type APIMeta, and the reducer that folds the *)
(* records into a mapping from id to APIMeta.                              *)

NOT_STARTED == "NOT_STARTED"
LOADING == "LOADING"
SUCCESS == "SUCCESS"
FAILURE == "FAILURE"
CANCELLED == "CANCELLED"

APIStatus == {NOT_STARTED, LOADING, SUCCESS, FAILURE, CANCELLED}

\* state with the entry of id set to meta
Put(state, id, meta) ==
    [i \in DOMAIN state \cup {id} |-> IF i = id THEN meta ELSE state[i]]

\* state without the entry of id
Delete(state, id) == [i \in DOMAIN state \ {id} |-> state[i]]

\* meta entering status at time (timestamp[status] is written once)
Enter(meta, status, time) ==
    [f \in DOMAIN meta \cup {"status", "timestamp"} |->
        CASE f = "status"    -> status
          [] f = "timestamp" -> Put(meta.timestamp, status, time)
          [] OTHER           -> meta[f]]

\* (state, action) -> state, folding at time
networkReducer(state, action, time) ==
    LET id      == action.id
        name    == Get(action, "name")
        known   == id \in DOMAIN state
        is(a)   == action.type = networkActionTypeCreator(a, name)
        fresh   == [id |-> id, name |-> name, status |-> NOT_STARTED,
                    timestamp |-> EmptyObj]
    IN  IF is(CREATE) THEN
            IF known THEN state ELSE Put(state, id, fresh)
        ELSE IF is(START) THEN
            IF ~known THEN Put(state, id, Enter(fresh, LOADING, time))
            ELSE IF state[id].status = NOT_STARTED
                 THEN Put(state, id, Enter(state[id], LOADING, time))
                 ELSE state
        ELSE IF is(SUCCEED) THEN
            IF known /\ state[id].status = LOADING
            THEN Put(state, id,
                     Put(Enter(state[id], SUCCESS, time),
                         "payload", Get(action, "payload")))
            ELSE state
        ELSE IF is(FAIL) THEN
            IF known /\ state[id].status = LOADING
            THEN Put(state, id,
                     Put(Enter(state[id], FAILURE, time),
                         "error", Get(action, "payload")))
            ELSE state
        ELSE IF is(CANCEL) THEN
            IF known /\ state[id].status \in {NOT_STARTED, LOADING}
            THEN Put(state, id, Enter(state[id], CANCELLED, time))
            ELSE state
        ELSE IF is(REMOVE) THEN
            Delete(state, id)
        ELSE state

----------------------------------------------------------------------------
(* SpecStore: records made by the creators are dispatched to the store     *)

StoreNames == {"n", "m"}

\* arguments of createRequest and startRequest
StoreOpenArgs ==
    {Obj([id |-> i, name |-> n]) : i \in {ABSENT, "a", "b"}, n \in StoreNames}

\* arguments of the creators that need the id of a request
StoreIdArgs(payload) ==
    {Obj([id |-> i, name |-> n, payload |-> payload]) :
        i \in {"a", "b"} \cup DOMAIN store, n \in {"n"}}

\* arguments of removeRequest: the id, with or without the name
StoreRemoveArgs ==
    {Obj([id |-> i, name |-> n]) :
        i \in {"a", "b"} \cup DOMAIN store, n \in {ABSENT, "n"}}

\* the creator fn is called on params and the record is folded at time now;
\* before is the store the record was folded into
Dispatch(fn, params) ==
    LET r == Apply(fn, params, nanoidCalls)
    IN  /\ now < MaxDispatch
        /\ nanoidCalls' = r.calls
        /\ store' = networkReducer(store, r.ret, now)
        /\ now' = now + 1
        /\ dispatched' = [fn |-> fn, arg |-> params, ret |-> r.ret,
                          before |-> store, at |-> now]
        /\ UNCHANGED <<log, sugg>>

DispatchCreate ==
    /\ now < MaxDispatch
    /\ \E p \in StoreOpenArgs : Dispatch("createRequest", p)

DispatchStart ==
    /\ now < MaxDispatch
    /\ \E p \in StoreOpenArgs : Dispatch("startRequest", p)

DispatchSucceed ==
    /\ now < MaxDispatch
    /\ \E p \in StoreIdArgs("42") : Dispatch("succeedRequest", p)

DispatchFail ==
    /\ now < MaxDispatch
    /\ \E p \in StoreIdArgs("err") : Dispatch("failRequest", p)

DispatchCancel ==
    /\ now < MaxDispatch
    /\ \E p \in StoreIdArgs(ABSENT) : Dispatch("cancelRequest", p)

DispatchRemove ==
    /\ now < MaxDispatch
    /\ \E p \in StoreRemoveArgs : Dispatch("removeRequest", p)

NextStore ==
    \/ DispatchCreate
    \/ DispatchStart
    \/ DispatchSucceed
    \/ DispatchFail
    \/ DispatchCancel
    \/ DispatchRemove

SpecStore == Init /\ [][NextStore]_vars

----------------------------------------------------------------------------
(* Properties of the store *)

Folded == dispatched.fn # "none"

Terminal == {SUCCESS, FAILURE, CANCELLED}

\* <<status before, action, status after>>
Edges ==
    {<<NOT_STARTED, START, LOADING>>,
     <<LOADING, SUCCEED, SUCCESS>>,
     <<LOADING, FAIL, FAILURE>>,
     <<LOADING, CANCEL, CANCELLED>>,
     <<NOT_STARTED, CANCEL, CANCELLED>>}

\* C4: folding a record changes the status of an id only along an edge of
\* the lifecycle, and only for the record's own id; an entry whose status is
\* SUCCESS, FAILURE or CANCELLED is left as it is by every record but REMOVE,
\* and folding a SUCCEED record a second time changes nothing.
C4_Lifecycle ==
    Folded =>
       /\ \A id \in DOMAIN dispatched.before :
             IF id \in DOMAIN store
             THEN /\ store[id].status # dispatched.before[id].status =>
                        /\ dispatched.ret.id = id
                        /\ <<dispatched.before[id].status,
                             ActionOf(dispatched.fn),
                             store[id].status>> \in Edges
                  /\ dispatched.before[id].status \in Terminal =>
                        store[id] = dispatched.before[id]
             ELSE ActionOf(dispatched.fn) = REMOVE
       /\ dispatched.fn = "succeedRequest" =>
             networkReducer(store, dispatched.ret, now) = store

\* a SUCCEED record folded for an id whose status is already SUCCESS
C4_Witness ==
    /\ dispatched.fn = "succeedRequest"
    /\ dispatched.ret.id \in DOMAIN dispatched.before
    /\ dispatched.before[dispatched.ret.id].status = SUCCESS
    /\ dispatched.before[dispatched.ret.id].timestamp[SUCCESS] < dispatched.at
    /\ store = dispatched.before

\* C5: folding a SUCCEED, FAIL, CANCEL or REMOVE record whose id has no
\* entry leaves the store as it was.
C5_UnknownIdIgnored ==
    (/\ Folded
     /\ ActionOf(dispatched.fn) \in {SUCCEED, FAIL, CANCEL, REMOVE}
     /\ dispatched.ret.id \notin DOMAIN dispatched.before) =>
        store = dispatched.before

\* a CANCEL record for an id without an entry, folded into a store that has
\* an entry of the same name under another id
C5_Witness ==
    /\ dispatched.fn = "cancelRequest"
    /\ dispatched.ret.id \notin DOMAIN dispatched.before
    /\ \E id \in DOMAIN dispatched.before :
          /\ dispatched.before[id].name = dispatched.ret.name
          /\ dispatched.before[id].status = LOADING
    /\ store = dispatched.before

\* C6: removeRequest returns a REMOVE record; folding it deletes the entry
\* of its id, whatever the status, and touches no other entry; folding it
\* again changes nothing.
C6_Remove ==
    dispatched.fn = "removeRequest" =>
       /\ dispatched.ret.type =
             "@RA/REMOVE/" \o Get(dispatched.ret, "name")
       /\ DOMAIN store = DOMAIN dispatched.before \ {dispatched.ret.id}
       /\ \A id \in DOMAIN store : store[id] = dispatched.before[id]
       /\ networkReducer(store, dispatched.ret, now) = store

\* removeRequest({id: X}) folded while X is in status SUCCESS and another
\* entry exists
C6_Witness ==
    /\ dispatched.fn = "removeRequest"
    /\ "name" \notin DOMAIN dispatched.arg
    /\ dispatched.ret.id \in DOMAIN dispatched.before
    /\ dispatched.before[dispatched.ret.id].status = SUCCESS
    /\ store # EmptyObj

----------------------------------------------------------------------------
(* requestYoutubeSearchSuggestions.  A JavaScript value here is a record   *)
(* [t, s, v]: its type tag, its characters (a string), its elements (an    *)
(* array) or its data property (a response).                               *)

Undefined == [t |-> "undefined", s |-> "", v |-> <<>>]
Null == [t |-> "null", s |-> "", v |-> <<>>]
String(s) == [t |-> "string", s |-> s, v |-> <<>>]
Array(v) == [t |-> "array", s |-> "", v |-> v]
PlainObject == [t |-> "object", s |-> "", v |-> <<>>]
Error == [t |-> "error", s |-> "Network Error", v |-> <<>>]
TypeError == [t |-> "error", s |-> "TypeError", v |-> <<>>]
\* an AxiosResponse whose data property is data
Response(data) == [t |-> "response", s |-> "", v |-> <<data>>]

\* ToBoolean
Truthy(x) == x.t \notin {"undefined", "null"} /\ ~(x.t = "string" /\ x.s = "")

\* Array.isArray
IsArray(x) == x.t = "array"

\* the strings of the model, with their character at index 1
StringAt1(s) == IF s = "ab" THEN String("b") ELSE Undefined

\* x[1] for x neither undefined nor null
At1(x) ==
    CASE x.t = "array"  -> IF Len(x.v) >= 2 THEN x.v[2] ELSE Undefined
      [] x.t = "string" -> StringAt1(x.s)
      [] OTHER          -> Undefined

YOUTUBE_SUGGESTION_URL ==
    "https://suggestqueries.google.com/complete/search?client=firefox&ds=yt&q={}"

\* YOUTUBE_SUGGESTION_URL.replace(`{}`, searchKeyword), for a keyword
\* without "$": the placeholder ends the URL
UrlFor(searchKeyword) ==
    "https://suggestqueries.google.com/complete/search?client=firefox&ds=yt&q="
        \o searchKeyword

Keywords == {"", "cat"}

RECURSIVE SuggestionLists(_)
SuggestionLists(k) ==
    IF k = 0 THEN {<<>>}
    ELSE LET shorter == SuggestionLists(k - 1)
         IN  shorter \cup {Append(l, String(x)) : l \in shorter, x \in {"cat", "cats"}}

\* what data[1] can be
Seconds ==
    {Array(l) : l \in SuggestionLists(MaxSuggestions)}
        \cup {Undefined, Null, String("ab")}

\* what the data of a response can be
Datas ==
    {Undefined, Null, String(""), String("ab"), PlainObject,
     Array(<<>>), Array(<<String("cat")>>)}
        \cup {Array(<<String("cat"), x>>) : x \in Seconds}
        \cup {Array(<<String("cat"), x, Array(<<>>), Array(<<>>)>>) : x \in Seconds}

\* what tcAsync(axios.get(...)) can resolve to: [error, result]
TcAsyncResults ==
    {[error |-> e, result |-> r] :
        e \in {Null, Undefined, Error},
        r \in {Undefined, Null} \cup {Response(d) : d \in Datas}}

\* lines 34-44: how the promise settles once tcAsync has resolved to tc
Settle(tc) ==
    IF Truthy(tc.error) \/ ~Truthy(tc.result)
    THEN [pc |-> "resolved", value |-> Null]
    ELSE LET data == tc.result.v[1]
         IN  IF data.t \in {"undefined", "null"}
             THEN [pc |-> "rejected", value |-> TypeError]
             ELSE IF ~IsArray(At1(data))
                  THEN [pc |-> "resolved", value |-> Null]
                  ELSE [pc |-> "resolved", value |-> At1(data)]

\* the call, up to the await
RequestSuggestions ==
    /\ sugg.pc = "idle"
    /\ \E k \in Keywords :
          sugg' = [pc |-> "awaiting", url |-> UrlFor(k), tc |-> <<>>, value |-> <<>>]
    /\ UNCHANGED <<nanoidCalls, log, store, now, dispatched>>

\* tcAsync resolves and the function runs to its end
SuggestionsSettle ==
    /\ sugg.pc = "awaiting"
    /\ \E tc \in TcAsyncResults :
          sugg' = [pc |-> Settle(tc).pc, url |-> sugg.url, tc |-> tc,
                   value |-> Settle(tc).value]
    /\ UNCHANGED <<nanoidCalls, log, store, now, dispatched>>

NextSuggest ==
    \/ RequestSuggestions
    \/ SuggestionsSettle

SpecSuggest == Init /\ [][NextSuggest]_vars

\* no error, a response, and an array at index 1 of an array
WellFormed(tc) ==
    /\ ~Truthy(tc.error)
    /\ tc.result.t = "response"
    /\ tc.result.v[1].t = "array"
    /\ Len(tc.result.v[1].v) >= 2
    /\ tc.result.v[1].v[2].t = "array"

\* C8: the promise always resolves: to data[1] when the response is well
\* formed, to null in every other case.
C8_NullOnError ==
    sugg.pc \notin {"idle", "awaiting"} =>
        /\ sugg.pc = "resolved"
        /\ sugg.value = IF WellFormed(sugg.tc)
                        THEN sugg.tc.result.v[1].v[2]
                        ELSE Null

============================================================================
